---- MODULE Spec2Model ----
(***************************************************************************)
(* Raster-polygon spatial measurement tools of CoDrone                     *)
(* (packages/agent_tools/spatial_tools.py): the GeoJSON validator, the     *)
(* three tools and the raster clip / volume calculation.                   *)
(*                                                                         *)
(* Numbers.  The code computes in floating point; the model computes      *)
(* exactly, in integers.  A coordinate or a geotransform term n stands for *)
(* n / 10 (degrees, or the raster's linear unit), an elevation n for       *)
(* n / 10 metres (the mock constants 98.5, 100.0, ... have one decimal).   *)
(* Areas, volumes and every value the code obtains by a division or from   *)
(* a decimal literal are exact fractions Rat(num, den).  int(a / b)        *)
(* truncates toward zero.                                                  *)
(*                                                                         *)
(* Exceptions.  A Python expression that may raise is an outcome record:   *)
(* Ok(v) or Raise(type, message).                                          *)
(***************************************************************************)
EXTENDS Integers, Sequences, FiniteSets, TLC

VARIABLES env, files, pc, call, returned, escaped, handle, window, earlier

vars == <<env, files, pc, call, returned, escaped, handle, window, earlier>>

---------------------------------------------------------------------------
(* Bounds of the model *)

\* polygon coordinates range over (1 - MaxCoord) .. MaxCoord
MaxCoord == 3
\* a raster has at most MaxPixels pixels
MaxPixels == 2
\* pixel elevations range over 0 .. MaxElev, base elevations over 0 .. MaxElev + 1
MaxElev == 2
\* the projected area the projection library reports ranges over 0 .. MaxArea
MaxArea == 1

(* Program constants *)

\* polygon_coordinates[:100] + "..." if len(polygon_coordinates) > 100
TruncateAt == 100

None == [t |-> "null"]

Rat(n, d) == [num |-> n, den |-> d]

Ok(v) == [raised |-> FALSE, val |-> v]

Raise(type, message) == [raised |-> TRUE, type |-> type, message |-> message]

---------------------------------------------------------------------------
(* JSON values, as json.loads builds them *)

JNum(n) == [t |-> "num", v |-> n]

JStr(s) == [t |-> "str", v |-> s]

JList(s) == [t |-> "list", v |-> s]

JDict(f) == [t |-> "dict", v |-> f]

\* what json.loads does on text that is not JSON
Malformed == [t |-> "malformed"]

\* a coordinate pair [x, y]
Pair(x, y) == JList(<<JNum(x), JNum(y)>>)

RECURSIVE PairsOf(_)
PairsOf(pts) ==
    IF pts = <<>> THEN <<>> ELSE <<Pair(pts[1][1], pts[1][2])>> \o PairsOf(Tail(pts))

\* {"type": "Polygon", "coordinates": [ring]} for a ring of integer points
PolygonOf(pts) ==
    JDict([type |-> JStr("Polygon"), coordinates |-> JList(<<JList(PairsOf(pts))>>)])

\* the decimal text of the number n / 10
DecimalText(n) ==
    (IF n < 0 THEN "-" ELSE "") \o ToString((IF n < 0 THEN -n ELSE n) \div 10)
    \o "." \o ToString((IF n < 0 THEN -n ELSE n) % 10)

RECURSIVE PointsText(_)
PointsText(pts) ==
    IF pts = <<>> THEN ""
    ELSE "[" \o DecimalText(pts[1][1]) \o ", " \o DecimalText(pts[1][2]) \o "]"
         \o (IF Len(pts) > 1 THEN ", " ELSE "") \o PointsText(Tail(pts))

\* the text json.dumps writes for PolygonOf(pts)
PolygonText(pts) ==
    "{\"type\": \"Polygon\", \"coordinates\": [[" \o PointsText(pts) \o "]]}"

\* An input string together with the value it denotes: text is the string the
\* caller passes, data what json.loads makes of it.
Doc(text, data) == [text |-> text, data |-> data]

PolygonDoc(pts) == Doc(PolygonText(pts), PolygonOf(pts))

\* the closed ring of the rectangle [x0, x1] x [y0, y1], counter-clockwise
RectRing(x0, x1, y0, y1) ==
    << <<x0, y0>>, <<x1, y0>>, <<x1, y1>>, <<x0, y1>>, <<x0, y0>> >>

\* JSON ignores whitespace around a document: a long input of more than
\* TruncateAt characters
Padding ==
    "                                                  "
    \o "                                                  "

---------------------------------------------------------------------------
(* Python's operations on JSON values *)

\* bool(v): the values "not v" is False for
Truthy(v) ==
    CASE v.t = "null" -> FALSE
      [] v.t = "num" -> v.v # 0
      [] v.t = "str" -> v.v # ""
      [] v.t = "list" -> v.v # <<>>
      [] v.t = "dict" -> DOMAIN v.v # {}
      [] OTHER -> TRUE

\* type(v).__name__: the numbers of the model stand for decimals
TypeName(v) ==
    CASE v.t = "null" -> "NoneType"
      [] v.t = "num" -> "float"
      [] v.t = "str" -> "str"
      [] v.t = "list" -> "list"
      [] OTHER -> "dict"

\* d.get(key, default) of a dict d
DictGet(d, key, default) == IF key \in DOMAIN d.v THEN d.v[key] ELSE default

\* v[key] for a string key
GetKey(v, key) ==
    CASE v.t = "dict" ->
           IF key \in DOMAIN v.v THEN Ok(v.v[key])
           ELSE Raise("KeyError", "'" \o key \o "'")
      [] v.t \in {"list", "str"} ->
           Raise("TypeError", TypeName(v) \o " indices must be integers")
      [] OTHER -> Raise("TypeError", "'" \o TypeName(v) \o "' object is not subscriptable")

\* v[i] for an index i >= 0 (Python counts from 0)
GetIndex(v, i) ==
    CASE v.t = "list" ->
           IF i < Len(v.v) THEN Ok(v.v[i + 1])
           ELSE Raise("IndexError", "list index out of range")
      [] v.t = "str" ->
           IF i < Len(v.v) THEN Ok(JStr(SubSeq(v.v, i + 1, i + 1)))
           ELSE Raise("IndexError", "string index out of range")
      [] v.t = "dict" -> Raise("KeyError", ToString(i))
      [] OTHER -> Raise("TypeError", "'" \o TypeName(v) \o "' object is not subscriptable")

\* c[0], for the outcome c of polygon_data["coordinates"]
FirstOf(c) == IF c.raised THEN c ELSE GetIndex(c.val, 0)

\* polygon_data["coordinates"][0]
OuterRing(polygon_data) == FirstOf(GetKey(polygon_data, "coordinates"))

\* the outcomes x of coord[0] and y of coord[1], used as numbers
PairOf(x, y) ==
    IF x.raised THEN x
    ELSE IF y.raised THEN y
    ELSE IF x.val.t # "num" \/ y.val.t # "num"
         THEN Raise("TypeError", "a number is required")
    ELSE Ok(<<x.val.v, y.val.v>>)

\* coord[0], coord[1] of one ring entry
PointOf(coord) == PairOf(GetIndex(coord, 0), GetIndex(coord, 1))

\* the point p before the points rest
Prepend(p, rest) == IF rest.raised THEN rest ELSE Ok(<<p.val>> \o rest.val)

\* the points of a ring, entry by entry: the first entry that is no pair of
\* numbers raises ("for coord in ...: coord[0], coord[1]")
RECURSIVE PointsOf(_)
PointsFrom(p, entries) ==
    IF p.raised THEN p ELSE Prepend(p, PointsOf(Tail(entries)))

PointsOf(entries) ==
    IF entries = <<>> THEN Ok(<<>>) ELSE PointsFrom(PointOf(entries[1]), entries)

\* the points of the outcome ring of polygon_data["coordinates"][0]
PointsOfRing(ring) ==
    IF ring.raised THEN ring
    ELSE IF ring.val.t # "list"
         THEN Raise("TypeError", "'" \o TypeName(ring.val) \o "' object is not iterable")
    ELSE PointsOf(ring.val.v)

\* the points of polygon_data["coordinates"][0]
RingPoints(polygon_data) == PointsOfRing(OuterRing(polygon_data))

\* json.loads(polygon_coordinates)
json_loads(polygon_coordinates) ==
    IF polygon_coordinates.data = Malformed
    THEN Raise("JSONDecodeError", "Expecting value: line 1 column 1 (char 0)")
    ELSE Ok(polygon_coordinates.data)

\* polygon_coordinates[:100] + "..." if len(polygon_coordinates) > 100
\* else polygon_coordinates
Truncated(polygon_coordinates) ==
    IF Len(polygon_coordinates.text) > TruncateAt
    THEN SubSeq(polygon_coordinates.text, 1, TruncateAt) \o "..."
    ELSE polygon_coordinates.text

---------------------------------------------------------------------------
(* GeometryValidator *)

\* lines 233-241: coordinates is a non-empty list of rings of at least 4 entries
RingsOK(coordinates) ==
    IF ~Truthy(coordinates) \/ coordinates.t # "list" THEN FALSE
    ELSE \A i \in 1..Len(coordinates.v) :
            ~(coordinates.v[i].t # "list" \/ Len(coordinates.v[i].v) < 4)

\* lines 229-241: the body of the validator's try.  .get on a value that is
\* no dict raises AttributeError.
ValidatorTry(polygon_data) ==
    IF polygon_data.t # "dict"
    THEN Raise("AttributeError",
               "'" \o TypeName(polygon_data) \o "' object has no attribute 'get'")
    ELSE IF DictGet(polygon_data, "type", None) # JStr("Polygon") THEN Ok(FALSE)
    ELSE Ok(RingsOK(DictGet(polygon_data, "coordinates", JList(<<>>))))

\* a validator without a handler: what its body raises leaves it
ValidatorUncaught(body) == body

\* lines 242-243: except Exception: return False
ValidatorExcept(body) == IF body.raised THEN Ok(FALSE) ELSE body

\* a validator that asks three points of a ring
ValidateThreePoints(polygon_data) ==
    Ok(/\ polygon_data.t = "dict"
       /\ DictGet(polygon_data, "type", None) = JStr("Polygon")
       /\ Truthy(DictGet(polygon_data, "coordinates", JList(<<>>)))
       /\ DictGet(polygon_data, "coordinates", JList(<<>>)).t = "list"
       /\ \A ring \in {DictGet(polygon_data, "coordinates", JList(<<>>)).v[i] :
                          i \in 1..Len(DictGet(polygon_data, "coordinates", JList(<<>>)).v)} :
             ring.t = "list" /\ Len(ring.v) >= 3)

\* _validate_polygon_geojson: the outcome of the call, Ok(True) or Ok(False)
_validate_polygon_geojson(polygon_data) == ValidatorExcept(ValidatorTry(polygon_data))

---------------------------------------------------------------------------
(* Numbers *)

\* A float the raster backend hands out is an elevation, a number of tenths
\* of a metre that is 0 or more, or the IEEE NaN, written NaN.
NaN == -1

\* x != y of two floats: NaN differs from every float, itself included
FloatNotEqual(x, y) == x = NaN \/ y = NaN \/ x # y

\* some entry of s is NaN
AnyNaN(s) == \E i \in 1..Len(s) : s[i] = NaN

Abs(n) == IF n < 0 THEN -n ELSE n

\* int(a / b): the quotient truncated toward zero
TruncDiv(a, b) ==
    IF (a >= 0) = (b > 0) THEN Abs(a) \div Abs(b) ELSE -(Abs(a) \div Abs(b))

Min2(a, b) == IF a < b THEN a ELSE b

Max2(a, b) == IF a > b THEN a ELSE b

RECURSIVE SeqMin(_)
SeqMin(s) == IF Len(s) = 1 THEN s[1] ELSE Min2(s[1], SeqMin(Tail(s)))

RECURSIVE SeqMax(_)
SeqMax(s) == IF Len(s) = 1 THEN s[1] ELSE Max2(s[1], SeqMax(Tail(s)))

RECURSIVE SeqSum(_)
SeqSum(s) == IF s = <<>> THEN 0 ELSE s[1] + SeqSum(Tail(s))

RECURSIVE Insert(_, _)
Insert(x, s) ==
    IF s = <<>> THEN <<x>>
    ELSE IF x <= s[1] THEN <<x>> \o s
    ELSE <<s[1]>> \o Insert(x, Tail(s))

RECURSIVE Sorted(_)
Sorted(s) == IF s = <<>> THEN <<>> ELSE Insert(s[1], Sorted(Tail(s)))

Column(pts, k) == [i \in 1..Len(pts) |-> pts[i][k]]

---------------------------------------------------------------------------
(* The raster backend (osgeo.gdal / ogr) *)

\* An opened dataset: GetGeoTransform() = (origin x, pixel width, 0, origin y,
\* 0, pixel height), RasterXSize, RasterYSize, band 1's GetNoDataValue()
\* (None or a number) and band 1's samples, band[row][column].
Dataset(gt, xs, ys, nodata, band) ==
    [t |-> "dataset", geotransform |-> gt, RasterXSize |-> xs, RasterYSize |-> ys,
     nodata |-> nodata, band |-> band]

\* polygon_geom.GetEnvelope(): (minx, maxx, miny, maxy)
GetEnvelope(pts) ==
    <<SeqMin(Column(pts, 1)), SeqMax(Column(pts, 1)),
      SeqMin(Column(pts, 2)), SeqMax(Column(pts, 2))>>

\* dsm_band.ReadAsArray(xoff, yoff, xsize, ysize): the rows of the window; a
\* window that leaves the raster is an error of the backend
ReadAsArray(ds, xoff, yoff, xsize, ysize) ==
    IF \/ xoff < 0 \/ yoff < 0 \/ xsize <= 0 \/ ysize <= 0
       \/ xoff + xsize > ds.RasterXSize \/ yoff + ysize > ds.RasterYSize
    THEN Raise("RuntimeError", "Access window out of range in RasterIO()")
    ELSE Ok([r \in 1..ysize |-> [c \in 1..xsize |-> ds.band[yoff + r][xoff + c]]])

\* array.flatten(): row after row
RECURSIVE Flatten(_)
Flatten(rows) == IF rows = <<>> THEN <<>> ELSE rows[1] \o Flatten(Tail(rows))

\* lines 287-288: cols = lrx - ulx, rows = lry - uly
WindowOf(ulx, uly, lrx, lry) ==
    [ulx |-> ulx, uly |-> uly, cols |-> lrx - ulx, rows |-> lry - uly]

\* a window whose lower right corner is not clamped to the raster
PixelWindowUnclamped(geotransform, xs, ys, envelope) ==
    WindowOf(Max2(0, TruncDiv(envelope[1] - geotransform[1], geotransform[2])),
             Max2(0, TruncDiv(envelope[4] - geotransform[4], geotransform[6])),
             TruncDiv(envelope[2] - geotransform[1], geotransform[2]),
             TruncDiv(envelope[3] - geotransform[4], geotransform[6]))

\* a window whose upper left corner is not clamped to the raster
PixelWindowNoFloor(geotransform, xs, ys, envelope) ==
    WindowOf(TruncDiv(envelope[1] - geotransform[1], geotransform[2]),
             TruncDiv(envelope[4] - geotransform[4], geotransform[6]),
             Min2(xs, TruncDiv(envelope[2] - geotransform[1], geotransform[2])),
             Min2(ys, TruncDiv(envelope[3] - geotransform[4], geotransform[6])))

\* lines 274-288: the envelope in pixel coordinates, clamped to the raster
PixelWindow(geotransform, xs, ys, envelope) ==
    WindowOf(Max2(0, TruncDiv(envelope[1] - geotransform[1], geotransform[2])),
             Max2(0, TruncDiv(envelope[4] - geotransform[4], geotransform[6])),
             Min2(xs, TruncDiv(envelope[2] - geotransform[1], geotransform[2])),
             Min2(ys, TruncDiv(envelope[3] - geotransform[4], geotransform[6])))

\* a filter that also drops every sample that is 0, declared or not
ValidSamplesNonZero(arr, dsm_nodata) ==
    IF dsm_nodata # None
    THEN SelectSeq(Flatten(arr), LAMBDA e : e # 0 /\ FloatNotEqual(e, dsm_nodata.v))
    ELSE SelectSeq(Flatten(arr), LAMBDA e : e # 0)

\* lines 298-303: the samples left after the no-data filter,
\* elevation_data[elevation_data != dsm_nodata]
ValidSamples(arr, dsm_nodata) ==
    IF dsm_nodata # None
    THEN SelectSeq(Flatten(arr), LAMBDA e : FloatNotEqual(e, dsm_nodata.v))
    ELSE Flatten(arr)

NoIntersectionMessage == "Polygon does not intersect with DSM raster"

EmptyWindowMessage == "No valid elevation data found within polygon"

---------------------------------------------------------------------------
(* VolumeEngine *)

\* np.min(elevation_data): NaN if a sample is NaN
NpMin(elevation_data) == IF AnyNaN(elevation_data) THEN NaN ELSE SeqMin(elevation_data)

\* a default base that is the highest sample instead of the lowest
BaseOrMaximum(base_elevation, elevation_data) ==
    IF base_elevation = None
    THEN (IF AnyNaN(elevation_data) THEN NaN ELSE SeqMax(elevation_data))
    ELSE base_elevation.v

\* lines 309-310: the base elevation the calculation uses
BaseOrMinimum(base_elevation, elevation_data) ==
    IF base_elevation = None THEN NpMin(elevation_data) ELSE base_elevation.v

\* line 313: the entries of elevation_data - base_elevation that are numbers.
\* An entry is NaN when its sample or the base is NaN; NaN < 0 and NaN > 0
\* are False, so neither mask of lines 314-315 selects it.
HeightDiff(elevation_data, base) ==
    IF base = NaN THEN <<>>
    ELSE [i \in 1..Len(SelectSeq(elevation_data, LAMBDA e : e # NaN)) |->
            SelectSeq(elevation_data, LAMBDA e : e # NaN)[i] - base]

\* a cut volume that keeps the sign of the differences
CutVolumeSigned(elevation_data, base, pixel_area) ==
    SeqSum(SelectSeq(HeightDiff(elevation_data, base), LAMBDA d : d < 0)) * pixel_area

\* line 314: np.sum(height_diff[height_diff < 0]) * pixel_area * -1
CutVolume(elevation_data, base, pixel_area) ==
    SeqSum(SelectSeq(HeightDiff(elevation_data, base), LAMBDA d : d < 0))
    * pixel_area * (-1)

\* line 315: np.sum(height_diff[height_diff > 0]) * pixel_area
FillVolume(elevation_data, base, pixel_area) ==
    SeqSum(SelectSeq(HeightDiff(elevation_data, base), LAMBDA d : d > 0)) * pixel_area

\* np.median of the n sorted values o
MedianOf(o, n) ==
    IF n % 2 = 1 THEN Rat(o[(n + 1) \div 2], 1)
    ELSE Rat(o[n \div 2] + o[n \div 2 + 1], 2)

\* the statistics of n samples with the given sum and sum of squares
StatsOf(s, n, sum, squares) ==
    [min |-> SeqMin(s), max |-> SeqMax(s), mean |-> Rat(sum, n),
     std |-> Rat(n * squares - sum * sum, n * n), median |-> MedianOf(Sorted(s), n)]

\* lines 322-328.  np.std is the square root of the variance; the model keeps
\* the variance (std squared), as a fraction.  Every statistic of samples
\* that hold a NaN is NaN.
ElevationStats(s) ==
    IF AnyNaN(s)
    THEN [min |-> NaN, max |-> NaN, mean |-> Rat(NaN, 1), std |-> Rat(NaN, 1),
          median |-> Rat(NaN, 1)]
    ELSE StatsOf(s, Len(s), SeqSum(s), SeqSum([i \in 1..Len(s) |-> s[i] * s[i]]))

---------------------------------------------------------------------------
(* GeodesicAreaCalculator *)

\* the sum over i of coords[i][0] * coords[j][1] - coords[j][0] * coords[i][1],
\* j = (i + 1) % n
Shoelace(pts) ==
    SeqSum([i \in 1..Len(pts) |->
              pts[i][1] * pts[(i % Len(pts)) + 1][2]
              - pts[(i % Len(pts)) + 1][1] * pts[i][2]])

\* an area that keeps the sign of the sum
SimpleAreaSigned(pts) ==
    IF pts.raised THEN pts ELSE Ok(Rat(Shoelace(pts.val) * 123210, 1))

\* abs(area) * 12321000 of the points pts.  Shoelace counts hundredths
\* (products of two coordinates), so the factor on it is 12321000 / 100.
SimpleAreaOf(pts) ==
    IF pts.raised THEN pts ELSE Ok(Rat(Abs(Shoelace(pts.val)) * 123210, 1))

\* _calculate_area_simple
_calculate_area_simple(polygon_data) == SimpleAreaOf(RingPoints(polygon_data))

\* line 403: utm_zone = int((centroid.x + 180) / 6) + 1, for a centroid
\* longitude x in tenths of a degree; int() rounds towards zero
UtmZone(x) == TruncDiv(x + 1800, 60) + 1

\* line 404: f"EPSG:{32600 + utm_zone if centroid.y >= 0 else 32700 + utm_zone}"
UtmCrs(x, y) ==
    "EPSG:" \o ToString(IF y >= 0 THEN 32600 + UtmZone(x) ELSE 32700 + UtmZone(x))

\* the area of the points pts in crs
GeodesicAreaOf(pts, crs, projected) ==
    IF pts.raised THEN pts
    ELSE IF crs = "EPSG:4326" THEN Ok(Rat(projected, 1))
    ELSE Ok(Rat(Abs(Shoelace(pts.val)), 200))

\* _calculate_geodesic_area.  geom.Polygon(coords) rejects entries that are no
\* pairs of numbers.  For EPSG:4326 the area is that of the ring projected to
\* its UTM zone by pyproj: projected, the value the library reports.  Else
\* it is shapely's planar area of the ring as given, half the shoelace sum.
_calculate_geodesic_area(polygon_data, crs, projected) ==
    GeodesicAreaOf(RingPoints(polygon_data), crs, projected)

\* (dx * dx + dy * dy) of the edge from pts[i] to pts[i + 1]
SquaredEdge(pts, i) ==
    (pts[i + 1][1] - pts[i][1]) * (pts[i + 1][1] - pts[i][1])
    + (pts[i + 1][2] - pts[i][2]) * (pts[i + 1][2] - pts[i][2])

\* the perimeter of the points pts
PerimeterOf(pts) ==
    IF pts.raised THEN pts
    ELSE Ok([squared_edges |-> [i \in 1..(Len(pts.val) - 1) |-> SquaredEdge(pts.val, i)],
             factor |-> 111000])

\* _calculate_perimeter: the sum of (dx * dx + dy * dy) ** 0.5 over the edges,
\* times 111000.  A square root is kept by its argument: the perimeter is
\* factor times the sum of the square roots of squared_edges / 100.
_calculate_perimeter(polygon_data) == PerimeterOf(RingPoints(polygon_data))

---------------------------------------------------------------------------
(* The volume calculations *)

\* What a calculation leaves: its outcome, the dataset it opened (None if it
\* opened none) and the pixel window it read (None if it read none).
Effect(outcome, dataset, read) == [outcome |-> outcome, dataset |-> dataset, read |-> read]

\* lines 330-350: the record of a calculation with the given volumes, in
\* thousandths of a cubic metre (tenths of a metre times hundredths of a
\* square unit)
VolumeRecord(polygon_data, dsm_path, measurement_name, ds, elevation_data, base, cut_volume, fill_volume, area, now) ==
    [volume_cubic_meters |-> Rat(fill_volume - cut_volume, 1000),
     cut_volume_cubic_meters |-> Rat(cut_volume, 1000),
     fill_volume_cubic_meters |-> Rat(fill_volume, 1000),
     area_square_meters |-> area,
     base_elevation_meters |-> base,
     average_height_meters |->
         IF area.num > 0
         THEN Rat((fill_volume - cut_volume) * area.den, 1000 * area.num)
         ELSE Rat(0, 1),
     measurement_name |-> measurement_name,
     coordinates |-> OuterRing(polygon_data).val,
     timestamp |-> now,
     elevation_stats |-> ElevationStats(elevation_data),
     metadata |->
         [dsm_resolution_x |-> Abs(ds.geotransform[2]),
          dsm_resolution_y |-> Abs(ds.geotransform[6]),
          pixel_count |-> Len(elevation_data),
          calculation_method |-> "gdal_raster_clip",
          coordinate_system |-> "EPSG:4326",
          confidence_score |-> Rat(95, 100),
          dsm_file |-> dsm_path]]

\* a result whose statistics are those of the heights over the base
VolumeAboveRelative(polygon_data, dsm_path, measurement_name, ds, w, elevation_data, base, pixel_area, area, now) ==
    IF area.raised THEN Effect(area, ds, w)
    ELSE Effect(Ok(VolumeRecord(polygon_data, dsm_path, measurement_name, ds,
                                [i \in 1..Len(elevation_data) |-> elevation_data[i] - base],
                                base,
                                CutVolume(elevation_data, base, pixel_area),
                                FillVolume(elevation_data, base, pixel_area),
                                area.val, now)),
                ds, w)

\* a result that carries the time of the call in its measurement name
VolumeAboveTimed(polygon_data, dsm_path, measurement_name, ds, w, elevation_data, base, pixel_area, area, now) ==
    IF area.raised THEN Effect(area, ds, w)
    ELSE Effect(Ok(VolumeRecord(polygon_data, dsm_path, now, ds,
                                elevation_data, base,
                                CutVolume(elevation_data, base, pixel_area),
                                FillVolume(elevation_data, base, pixel_area),
                                area.val, now)),
                ds, w)

\* lines 313-350, once the base elevation and the pixel area are known
VolumeAbove(polygon_data, dsm_path, measurement_name, ds, w, elevation_data, base, pixel_area, area, now) ==
    IF area.raised THEN Effect(area, ds, w)
    ELSE Effect(Ok(VolumeRecord(polygon_data, dsm_path, measurement_name, ds,
                                elevation_data, base,
                                CutVolume(elevation_data, base, pixel_area),
                                FillVolume(elevation_data, base, pixel_area),
                                area.val, now)),
                ds, w)

\* lines 305-319, on the samples the filter left
VolumeOfSamples(polygon_data, dsm_path, base_elevation, measurement_name, ds, w, elevation_data, projected, now) ==
    IF Len(elevation_data) = 0
    THEN Effect(Raise("ValueError", EmptyWindowMessage), ds, w)
    ELSE VolumeAbove(polygon_data, dsm_path, measurement_name, ds, w, elevation_data,
                     BaseOrMinimum(base_elevation, elevation_data),
                     Abs(ds.geotransform[2] * ds.geotransform[6]),
                     _calculate_geodesic_area(polygon_data, "EPSG:4326", projected), now)

\* lines 293-303, on the outcome arr of ReadAsArray
VolumeOfArray(polygon_data, dsm_path, base_elevation, measurement_name, ds, w, arr, projected, now) ==
    IF arr.raised THEN Effect(arr, ds, None)
    ELSE VolumeOfSamples(polygon_data, dsm_path, base_elevation, measurement_name, ds, w,
                         ValidSamples(arr.val, ds.nodata), projected, now)

\* lines 287-293, on the pixel window w
VolumeInWindow(polygon_data, dsm_path, base_elevation, measurement_name, ds, w, projected, now) ==
    IF w.cols <= 0 \/ w.rows <= 0
    THEN Effect(Raise("ValueError", NoIntersectionMessage), ds, None)
    ELSE VolumeOfArray(polygon_data, dsm_path, base_elevation, measurement_name, ds, w,
                       ReadAsArray(ds, w.ulx, w.uly, w.cols, w.rows), projected, now)

\* lines 264-284, on the outcome pts of the ring's points
VolumeOfRing(polygon_data, dsm_path, base_elevation, measurement_name, ds, pts, projected, now) ==
    IF pts.raised THEN Effect(pts, ds, None)
    ELSE VolumeInWindow(polygon_data, dsm_path, base_elevation, measurement_name, ds,
                        PixelWindow(ds.geotransform, ds.RasterXSize, ds.RasterYSize,
                                    GetEnvelope(pts.val)),
                        projected, now)

\* _calculate_volume_with_gdal.  opened is what gdal.Open does: it raises,
\* returns None, or returns a dataset.
_calculate_volume_with_gdal(polygon_data, dsm_path, base_elevation, measurement_name, opened, projected, now) ==
    IF opened.raised THEN Effect(opened, None, None)
    ELSE IF opened.val = None
         THEN Effect(Raise("ValueError", "Could not open DSM file: " \o dsm_path), None, None)
    ELSE VolumeOfRing(polygon_data, dsm_path, base_elevation, measurement_name, opened.val,
                      RingPoints(polygon_data), projected, now)

\* lines 361-390: the record for the simple area, a whole number of square
\* metres and a multiple of 123210.  mock_volume = area * 2.5, its cut 0.2
\* and its fill 0.8 of it, all whole numbers of cubic metres.
MockRecord(polygon_data, dsm_path, base_elevation, measurement_name, area, now) ==
    [volume_cubic_meters |-> Rat((area.num * 5) \div 2, 1),
     cut_volume_cubic_meters |-> Rat(((area.num * 5) \div 2) \div 5, 1),
     fill_volume_cubic_meters |-> Rat((((area.num * 5) \div 2) \div 5) * 4, 1),
     area_square_meters |-> area,
     base_elevation_meters |->
         IF base_elevation = None \/ base_elevation.v = 0 THEN 1000 ELSE base_elevation.v,
     average_height_meters |-> Rat(25, 10),
     measurement_name |-> measurement_name,
     coordinates |-> OuterRing(polygon_data).val,
     timestamp |-> now,
     elevation_stats |->
         [min |-> Rat(985, 10), max |-> Rat(1052, 10), mean |-> Rat(1025, 10),
          std |-> Rat(18, 10), median |-> Rat(1021, 10)],
     metadata |->
         [dsm_resolution_x |-> Rat(1, 10),
          dsm_resolution_y |-> Rat(1, 10),
          pixel_count |-> area.num * 100,
          calculation_method |-> "mock_development",
          coordinate_system |-> "EPSG:4326",
          confidence_score |-> Rat(85, 100),
          dsm_file |-> dsm_path,
          note |-> "Mock calculation - GDAL not available in development environment"]]

\* lines 360-390, on the outcome area of _calculate_area_simple
MockOfArea(polygon_data, dsm_path, base_elevation, measurement_name, area, now) ==
    IF area.raised THEN Effect(area, None, None)
    ELSE Effect(Ok(MockRecord(polygon_data, dsm_path, base_elevation, measurement_name,
                              area.val, now)),
                None, None)

\* _calculate_volume_mock
_calculate_volume_mock(polygon_data, dsm_path, base_elevation, measurement_name, now) ==
    MockOfArea(polygon_data, dsm_path, base_elevation, measurement_name,
               _calculate_area_simple(polygon_data), now)

\* _calculate_elevation_stats: the same numbers for every polygon and raster
_calculate_elevation_stats(polygon_data, dsm_path) ==
    [min_elevation |-> Rat(985, 10), max_elevation |-> Rat(1052, 10),
     mean_elevation |-> Rat(1025, 10), std_elevation |-> Rat(18, 10),
     median_elevation |-> Rat(1021, 10), elevation_range |-> Rat(67, 10)]

\* _mock_elevation_stats
_mock_elevation_stats ==
    [min_elevation |-> Rat(985, 10), max_elevation |-> Rat(1052, 10),
     mean_elevation |-> Rat(1025, 10), std_elevation |-> Rat(18, 10),
     median_elevation |-> Rat(1021, 10), elevation_range |-> Rat(67, 10)]

---------------------------------------------------------------------------
(* The tools *)

\* an error that does not name the path
NotFoundWithoutPath(dsm_file_path) == "DSM file not found"

\* lines 89 and 198: f"DSM file not found: {dsm_file_path}"
NotFoundMessage(dsm_file_path) == "DSM file not found: " \o dsm_file_path

\* a handler that catches ValueError and its subclasses only
ExceptValueError(type) == type \in {"ValueError", "JSONDecodeError"}

\* "except Exception": every exception a tool's body raises is an Exception
ExceptException(type) ==
    type \in {"JSONDecodeError", "KeyError", "IndexError", "TypeError", "ValueError",
              "RuntimeError", "AttributeError"}

\* the tool returns value (the object json.dumps writes)
Return(value, effect) ==
    [returned |-> value, escaped |-> None, dataset |-> effect.dataset, read |-> effect.read]

\* the exception leaves the tool
Escape(exc, effect) ==
    [returned |-> None, escaped |-> exc, dataset |-> effect.dataset, read |-> effect.read]

\* try: body / except Exception as e: return failed
Try(body, failed) ==
    IF ~body.outcome.raised THEN Return(body.outcome.val, body)
    ELSE IF ExceptException(body.outcome.type) THEN Return(failed, body)
    ELSE Escape(body.outcome, body)

\* str(e) of a raised outcome, "" of any other
StrOf(outcome) == IF outcome.raised THEN outcome.message ELSE ""

\* lines 74-103, on the outcome polygon_data of json.loads
VolumeOfPolygon(polygon_data, polygon_coordinates, dsm_file_path, base_elevation, measurement_name, e, fs, opened, projected, now) ==
    IF polygon_data.raised THEN Effect(polygon_data, None, None)
    ELSE IF _validate_polygon_geojson(polygon_data.val).raised
         THEN Effect(_validate_polygon_geojson(polygon_data.val), None, None)
    ELSE IF ~_validate_polygon_geojson(polygon_data.val).val
         THEN Effect(Ok([error |-> "Invalid GeoJSON polygon format",
                         polygon |-> Truncated(polygon_coordinates)]),
                     None, None)
    ELSE IF dsm_file_path \notin fs
         THEN Effect(Ok([error |-> NotFoundMessage(dsm_file_path),
                         note |-> "Please ensure the DSM file path is correct"]),
                     None, None)
    ELSE IF e.GDAL_AVAILABLE /\ e.SHAPELY_AVAILABLE
         THEN _calculate_volume_with_gdal(polygon_data.val, dsm_file_path, base_elevation,
                                          measurement_name, opened, projected, now)
    ELSE _calculate_volume_mock(polygon_data.val, dsm_file_path, base_elevation,
                                measurement_name, now)

\* lines 70-105: the body of the try
VolumeBody(polygon_coordinates, dsm_file_path, base_elevation, measurement_name, e, fs, opened, projected, now) ==
    VolumeOfPolygon(json_loads(polygon_coordinates), polygon_coordinates, dsm_file_path,
                    base_elevation, measurement_name, e, fs, opened, projected, now)

\* lines 107-116: what the handler returns for the body's effect
VolumeFailed(body, polygon_coordinates, dsm_file_path) ==
    [error |-> "Volume calculation failed: " \o StrOf(body.outcome),
     polygon |-> Truncated(polygon_coordinates),
     dsm_path |-> dsm_file_path]

\* calculate_volume_from_polygon, in the environment e (GDAL_AVAILABLE,
\* SHAPELY_AVAILABLE) and the file system fs
calculate_volume_from_polygon(polygon_coordinates, dsm_file_path, base_elevation, measurement_name, e, fs, opened, projected, now) ==
    Try(VolumeBody(polygon_coordinates, dsm_file_path, base_elevation, measurement_name,
                   e, fs, opened, projected, now),
        VolumeFailed(VolumeBody(polygon_coordinates, dsm_file_path, base_elevation,
                                measurement_name, e, fs, opened, projected, now),
                     polygon_coordinates, dsm_file_path))

\* a record whose acres are the area over 4046, the acre in whole square
\* metres rounded down
AreaRecordShortAcre(area_sqm, ring, perimeter, coordinate_system, measurement_name, e, now) ==
    IF area_sqm.raised THEN area_sqm
    ELSE IF ring.raised THEN ring
    ELSE IF perimeter.raised THEN perimeter
    ELSE Ok([area_square_meters |-> area_sqm.val,
             area_hectares |-> Rat(area_sqm.val.num, area_sqm.val.den * 10000),
             area_acres |-> Rat(area_sqm.val.num, area_sqm.val.den * 4046),
             measurement_name |-> measurement_name,
             coordinate_system |-> coordinate_system,
             coordinates |-> ring.val,
             timestamp |-> now,
             perimeter_meters |-> perimeter.val,
             metadata |->
                 [calculation_method |->
                      IF e.SHAPELY_AVAILABLE THEN "geodesic" ELSE "simple",
                  coordinate_count |-> Len(ring.val.v)]])

\* lines 148-161, on the outcomes of the area, the ring and the perimeter
AreaRecord(area_sqm, ring, perimeter, coordinate_system, measurement_name, e, now) ==
    IF area_sqm.raised THEN area_sqm
    ELSE IF ring.raised THEN ring
    ELSE IF perimeter.raised THEN perimeter
    ELSE Ok([area_square_meters |-> area_sqm.val,
             area_hectares |-> Rat(area_sqm.val.num, area_sqm.val.den * 10000),
             area_acres |-> Rat(area_sqm.val.num, area_sqm.val.den * 4047),
             measurement_name |-> measurement_name,
             coordinate_system |-> coordinate_system,
             coordinates |-> ring.val,
             timestamp |-> now,
             perimeter_meters |-> perimeter.val,
             metadata |->
                 [calculation_method |->
                      IF e.SHAPELY_AVAILABLE THEN "geodesic" ELSE "simple",
                  coordinate_count |-> Len(ring.val.v)]])

\* lines 139-161, on the outcome polygon_data of json.loads
AreaOfPolygon(polygon_data, coordinate_system, measurement_name, e, projected, now) ==
    IF polygon_data.raised THEN polygon_data
    ELSE IF _validate_polygon_geojson(polygon_data.val).raised
         THEN _validate_polygon_geojson(polygon_data.val)
    ELSE IF ~_validate_polygon_geojson(polygon_data.val).val
         THEN Ok([error |-> "Invalid GeoJSON polygon format"])
    ELSE AreaRecord(IF e.SHAPELY_AVAILABLE
                    THEN _calculate_geodesic_area(polygon_data.val, coordinate_system,
                                                  projected)
                    ELSE _calculate_area_simple(polygon_data.val),
                    OuterRing(polygon_data.val), _calculate_perimeter(polygon_data.val),
                    coordinate_system, measurement_name, e, now)

\* lines 137-163: the body of the try
AreaBody(polygon_coordinates, coordinate_system, measurement_name, e, projected, now) ==
    Effect(AreaOfPolygon(json_loads(polygon_coordinates), coordinate_system,
                         measurement_name, e, projected, now),
           None, None)

\* lines 165-173
AreaFailed(body, polygon_coordinates) ==
    [error |-> "Area calculation failed: " \o StrOf(body.outcome),
     polygon |-> Truncated(polygon_coordinates)]

\* an area tool that labels every result "Area Measurement"
AreaToolDefaultName(polygon_coordinates, coordinate_system, measurement_name, e, projected, now) ==
    Try(AreaBody(polygon_coordinates, coordinate_system, "Area Measurement", e, projected, now),
        AreaFailed(AreaBody(polygon_coordinates, coordinate_system, "Area Measurement", e,
                            projected, now),
                   polygon_coordinates))

\* calculate_polygon_area
calculate_polygon_area(polygon_coordinates, coordinate_system, measurement_name, e, projected, now) ==
    Try(AreaBody(polygon_coordinates, coordinate_system, measurement_name, e, projected, now),
        AreaFailed(AreaBody(polygon_coordinates, coordinate_system, measurement_name, e,
                            projected, now),
                   polygon_coordinates))

\* lines 205-211, on the outcome ring of polygon_data["coordinates"][0]
ElevationRecord(stats, ring, dsm_file_path, measurement_name, now) ==
    IF ring.raised THEN ring
    ELSE Ok([measurement_name |-> measurement_name,
             elevation_stats |-> stats,
             coordinates |-> ring.val,
             timestamp |-> now,
             dsm_file |-> dsm_file_path])

\* lines 195-211, on the outcome polygon_data of json.loads
ElevationOfPolygon(polygon_data, dsm_file_path, measurement_name, e, fs, now) ==
    IF polygon_data.raised THEN polygon_data
    ELSE IF dsm_file_path \notin fs
         THEN Ok([error |-> NotFoundMessage(dsm_file_path)])
    ELSE ElevationRecord(IF e.GDAL_AVAILABLE
                         THEN _calculate_elevation_stats(polygon_data.val, dsm_file_path)
                         ELSE _mock_elevation_stats,
                         OuterRing(polygon_data.val), dsm_file_path, measurement_name, now)

\* lines 194-213: the body of the try
ElevationBody(polygon_coordinates, dsm_file_path, measurement_name, e, fs, now) ==
    Effect(ElevationOfPolygon(json_loads(polygon_coordinates), dsm_file_path,
                              measurement_name, e, fs, now),
           None, None)

\* lines 215-223
ElevationFailed(body, polygon_coordinates) ==
    [error |-> "Elevation analysis failed: " \o StrOf(body.outcome),
     polygon |-> Truncated(polygon_coordinates)]

\* analyze_elevation_profile
analyze_elevation_profile(polygon_coordinates, dsm_file_path, measurement_name, e, fs, now) ==
    Try(ElevationBody(polygon_coordinates, dsm_file_path, measurement_name, e, fs, now),
        ElevationFailed(ElevationBody(polygon_coordinates, dsm_file_path, measurement_name,
                                      e, fs, now),
                        polygon_coordinates))

---------------------------------------------------------------------------
(* Inputs of the model *)

Coords == (1 - MaxCoord)..MaxCoord

Elevations == 0..MaxElev

\* the file that exists and one that does not
ExistingPath == "/data/dsm.tif"

MissingPath == "/nonexistent/dsm.tif"

Paths == {ExistingPath, MissingPath}

Names == {"Stockpile A"}

Clock == {"2025-01-01T00:00:00"}

Systems == {"EPSG:4326", "EPSG:32633"}

\* base_elevation: omitted, or a number
Bases == {None} \cup {JNum(b) : b \in 0..(MaxElev + 1)}

\* raster sizes (columns, rows) of at most MaxPixels pixels
Sizes == {s \in (1..MaxPixels) \X (1..MaxPixels) : s[1] * s[2] <= MaxPixels}

\* every band of a size, band[row][column]: a pixel holds an elevation or NaN
Bands(size) == [1..size[2] -> [1..size[1] -> Elevations \cup {NaN}]]

\* Rasters of the tools' specification: one north-up geotransform with origin
\* (0, 1) and pixels 1 wide and 2 high, every size, every band, no-data value
\* undeclared, 0 or NaN.
DataRastersOf(size) ==
    {Dataset(<<0, 1, 0, 1, 0, -2>>, size[1], size[2], nodata, band) :
        nodata \in {None, JNum(0), JNum(NaN)}, band \in Bands(size)}

DataRasters == UNION {DataRastersOf(size) : size \in Sizes}

\* pixel widths and heights range over 1 .. MaxPixelSize
MaxPixelSize == 2

\* Rasters of the clip's specification: every north-up geotransform with
\* origin (0, 1), every size, elevation 1 everywhere, no no-data value.
ClipRastersOf(size) ==
    {Dataset(<<0, pw, 0, 1, 0, -ph>>, size[1], size[2], None,
             [r \in 1..size[2] |-> [c \in 1..size[1] |-> 1]]) :
        pw \in 1..MaxPixelSize, ph \in 1..MaxPixelSize}

ClipRasters == UNION {ClipRastersOf(size) : size \in Sizes}

\* what gdal.Open can do on a file that exists
OpenOutcomes(rasters) ==
    {Ok(ds) : ds \in rasters}
    \cup {Ok(None), Raise("RuntimeError", "not recognized as a supported file format")}

\* every rectangle of the coordinate grid
ClipDocs ==
    UNION {{PolygonDoc(RectRing(x0, x1, y0, y1)) :
               x1 \in {x \in Coords : x > x0}, y1 \in {y \in Coords : y > y0}} :
           x0 \in Coords, y0 \in Coords}

\* a rectangle that covers every raster of DataRasters
CoverRing == RectRing(0, MaxPixels, 1 - 2 * MaxPixels, 1)

\* a triangle over the raster's upper left corner
CornerRing == << <<0, 0>>, <<2, 0>>, <<0, -2>>, <<0, 0>> >>

\* a rectangle north-west of every raster
AwayRing == RectRing(-2, -1, 2, 3)

ValidDocs ==
    {PolygonDoc(CoverRing), PolygonDoc(CornerRing), PolygonDoc(AwayRing),
     Doc(PolygonText(CornerRing) \o Padding, PolygonOf(CornerRing))}

\* inputs the validator answers False on, or that are no JSON at all
InvalidDocs ==
    {Doc("invalid json", Malformed),
     Doc("invalid json" \o Padding, Malformed),
     Doc("[0.1, 0.2]", JList(<<JNum(1), JNum(2)>>)),
     Doc("{\"type\": \"Point\", \"coordinates\": [0.0, 0.0]}",
         JDict([type |-> JStr("Point"), coordinates |-> JList(<<JNum(0), JNum(0)>>)])),
     Doc("{\"type\": \"Point\", \"coordinates\": [0.0, 0.0]}" \o Padding,
         JDict([type |-> JStr("Point"), coordinates |-> JList(<<JNum(0), JNum(0)>>)])),
     Doc("{\"type\": \"Point\", \"coordinates\": [[[0.0, 0.0], [0.2, 0.0], [0.0, -0.2], [0.0, 0.0]]]}",
         JDict([type |-> JStr("Point"),
                coordinates |-> JList(<<JList(PairsOf(CornerRing))>>)])),
     Doc("{\"coordinates\": [[[0.0, 0.0], [0.2, 0.0], [0.0, -0.2], [0.0, 0.0]]]}",
         JDict([coordinates |-> JList(<<JList(PairsOf(CornerRing))>>)])),
     Doc("{\"type\": \"Polygon\"}", JDict([type |-> JStr("Polygon")])),
     Doc("{\"type\": \"Polygon\", \"coordinates\": []}",
         JDict([type |-> JStr("Polygon"), coordinates |-> JList(<<>>)])),
     Doc("{\"type\": \"Polygon\", \"coordinates\": \"abcd\"}",
         JDict([type |-> JStr("Polygon"), coordinates |-> JStr("abcd")])),
     Doc("{\"type\": \"Polygon\", \"coordinates\": [[[0.0, 0.0], [0.1, 0.1], [0.0, 0.0]]]}",
         JDict([type |-> JStr("Polygon"),
                coordinates |-> JList(<<JList(PairsOf(<< <<0, 0>>, <<1, 1>>, <<0, 0>> >>))>>)])),
     Doc("{\"type\": \"Polygon\", \"coordinates\": [[[0.0, 0.0], [0.2, 0.0], [0.0, -0.2], [0.0, 0.0]], [[0.0, 0.0], [0.1, 0.1]]]}",
         JDict([type |-> JStr("Polygon"),
                coordinates |-> JList(<<JList(PairsOf(CornerRing)),
                                        JList(PairsOf(<< <<0, 0>>, <<1, 1>> >>))>>)])),
     Doc("{\"type\": \"Polygon\", \"coordinates\": [0.1, 0.2, 0.3, 0.4]}",
         JDict([type |-> JStr("Polygon"),
                coordinates |-> JList(<<JNum(1), JNum(2), JNum(3), JNum(4)>>)]))}

\* inputs the validator accepts whose ring entries are no coordinate pairs
OddDocs ==
    {Doc("{\"type\": \"Polygon\", \"coordinates\": [[0.1, 0.2, 0.3, 0.4]]}",
         JDict([type |-> JStr("Polygon"),
                coordinates |-> JList(<<JList(<<JNum(1), JNum(2), JNum(3), JNum(4)>>)>>)])),
     Doc("{\"type\": \"Polygon\", \"coordinates\": [[[0.0, 0.0], [0.2, 0.0], [0.0], [0.0, 0.0]]]}",
         JDict([type |-> JStr("Polygon"),
                coordinates |-> JList(<<JList(<<Pair(0, 0), Pair(2, 0), JList(<<JNum(0)>>),
                                                Pair(0, 0)>>)>>)])),
     Doc("{\"type\": \"Polygon\", \"coordinates\": [[\"ab\", \"cd\", \"ef\", \"ab\"]]}",
         JDict([type |-> JStr("Polygon"),
                coordinates |-> JList(<<JList(<<JStr("ab"), JStr("cd"), JStr("ef"),
                                                JStr("ab")>>)>>)]))}

\* four corners of a square, the first not repeated at the end
OpenRing == << <<0, 0>>, <<2, 0>>, <<2, -2>>, <<0, -2>> >>

\* inputs the validator accepts whose ring does not close
UnclosedDocs == {PolygonDoc(OpenRing)}

\* a closed ring of three points on one line: it encloses no area
FlatRing == << <<0, 0>>, <<1, 0>>, <<2, 0>>, <<0, 0>> >>

\* inputs the validator accepts whose ring encloses no area
FlatDocs == {PolygonDoc(FlatRing)}

ToolDocs == ValidDocs \cup InvalidDocs \cup OddDocs \cup UnclosedDocs \cup FlatDocs

\* the square [[0, 0], [1, 0], [1, 1], [0, 1], [0, 0]] of one degree
UnitSquare == RectRing(0, 10, 0, 10)

\* the inputs of the area tool
AreaDocs == ToolDocs \cup {PolygonDoc(UnitSquare)}

---------------------------------------------------------------------------
(* The state machine: one invocation of one tool in a fresh process *)

NoCall == [tool |-> "none"]

TypeOK ==
    /\ env \in [GDAL_AVAILABLE : BOOLEAN, SHAPELY_AVAILABLE : BOOLEAN]
    /\ files \subseteq Paths
    /\ pc \in {"idle", "returned", "escaped"}
    /\ handle \in {"none", "open", "released"}

\* the import of the module sets GDAL_AVAILABLE and SHAPELY_AVAILABLE
Init ==
    /\ env \in [GDAL_AVAILABLE : BOOLEAN, SHAPELY_AVAILABLE : BOOLEAN]
    /\ files = {ExistingPath}
    /\ pc = "idle"
    /\ call = NoCall
    /\ returned = None
    /\ escaped = None
    /\ handle = "none"
    /\ window = Effect(None, None, None)
    /\ earlier = None

\* the call reaches gdal.Open(str(dsm_path)): lines 71-98
ReachesOpen(polygon_coordinates, dsm_file_path) ==
    /\ ~json_loads(polygon_coordinates).raised
    /\ _validate_polygon_geojson(json_loads(polygon_coordinates).val) = Ok(TRUE)
    /\ dsm_file_path \in files
    /\ env.GDAL_AVAILABLE /\ env.SHAPELY_AVAILABLE

\* the state a tool's return leaves.  The dataset a calculation opened is
\* closed by no statement of the tools: it stays open until the interpreter
\* finalizes the object.
Returns(r, invocation) ==
    /\ call' = invocation
    /\ returned' = r.returned
    /\ escaped' = r.escaped
    /\ window' = Effect(None, r.dataset, r.read)
    /\ handle' = IF r.dataset # None THEN "open" ELSE handle
    /\ pc' = IF r.escaped = None THEN "returned" ELSE "escaped"
    /\ UNCHANGED <<env, files, earlier>>

CalculateVolumeOn(docs, rasters, bases) ==
    /\ pc = "idle"
    /\ \E polygon_coordinates \in docs, dsm_file_path \in Paths, base_elevation \in bases,
          measurement_name \in Names, now \in Clock :
          \E opened \in (IF ReachesOpen(polygon_coordinates, dsm_file_path)
                         THEN OpenOutcomes(rasters) ELSE {Ok(None)}),
             projected \in (IF ReachesOpen(polygon_coordinates, dsm_file_path)
                            THEN 0..MaxArea ELSE {0}) :
          \E r \in {calculate_volume_from_polygon(polygon_coordinates, dsm_file_path,
                         base_elevation, measurement_name, env, files, opened,
                         projected, now)} :
             Returns(r,
                     [tool |-> "calculate_volume_from_polygon",
                      polygon_coordinates |-> polygon_coordinates,
                      dsm_file_path |-> dsm_file_path,
                      base_elevation |-> base_elevation,
                      measurement_name |-> measurement_name])

CalculateVolume == CalculateVolumeOn(ToolDocs, DataRasters, Bases)

CalculatePolygonArea ==
    /\ pc = "idle"
    /\ \E polygon_coordinates \in AreaDocs, coordinate_system \in Systems,
          measurement_name \in Names, now \in Clock, projected \in 0..MaxArea :
       \E r \in {calculate_polygon_area(polygon_coordinates, coordinate_system,
                      measurement_name, env, projected, now)} :
          Returns(r,
                  [tool |-> "calculate_polygon_area",
                   polygon_coordinates |-> polygon_coordinates,
                   coordinate_system |-> coordinate_system,
                   measurement_name |-> measurement_name])

AnalyzeElevationProfile ==
    /\ pc = "idle"
    /\ \E polygon_coordinates \in ToolDocs, dsm_file_path \in Paths,
          measurement_name \in Names, now \in Clock :
       \E r \in {analyze_elevation_profile(polygon_coordinates, dsm_file_path,
                      measurement_name, env, files, now)} :
          Returns(r,
                  [tool |-> "analyze_elevation_profile",
                   polygon_coordinates |-> polygon_coordinates,
                   dsm_file_path |-> dsm_file_path,
                   measurement_name |-> measurement_name])

\* The interpreter finalizes the dataset object once nothing refers to it
\* any more, and that closes the file: no statement of the tools does.
Finalize ==
    /\ pc \in {"returned", "escaped"}
    /\ handle = "open"
    /\ handle' = "released"
    /\ UNCHANGED <<env, files, pc, call, returned, escaped, window, earlier>>

Next ==
    \/ CalculateVolume
    \/ CalculatePolygonArea
    \/ AnalyzeElevationProfile
    \/ Finalize

Spec == Init /\ [][Next]_vars

\* The clip: the volume calculation on the real raster path, over every
\* rectangle of the grid and every north-up raster.
InitClip ==
    /\ env = [GDAL_AVAILABLE |-> TRUE, SHAPELY_AVAILABLE |-> TRUE]
    /\ files = {ExistingPath}
    /\ pc = "idle"
    /\ call = NoCall
    /\ returned = None
    /\ escaped = None
    /\ handle = "none"
    /\ window = Effect(None, None, None)
    /\ earlier = None

ClipVolume == CalculateVolumeOn(ClipDocs, ClipRasters, {None})

NextClip == ClipVolume \/ Finalize

SpecClip == InitClip /\ [][NextClip]_vars

\* The choice of the UTM zone: lines 402-404 of _calculate_geodesic_area, for
\* every centroid shapely may report, in tenths of a degree.
Longitudes == (-1810)..1810

Latitudes == {-900, -1, 0, 1, 900}

InitZone ==
    /\ env = [GDAL_AVAILABLE |-> TRUE, SHAPELY_AVAILABLE |-> TRUE]
    /\ files = {ExistingPath}
    /\ pc = "idle"
    /\ call = NoCall
    /\ returned = None
    /\ escaped = None
    /\ handle = "none"
    /\ window = Effect(None, None, None)
    /\ earlier = None

SelectUtm ==
    /\ pc = "idle"
    /\ \E x \in Longitudes, y \in Latitudes :
          /\ call' = [tool |-> "_calculate_geodesic_area", centroid |-> <<x, y>>]
          /\ returned' = [utm_zone |-> UtmZone(x), utm_crs |-> UtmCrs(x, y)]
    /\ pc' = "returned"
    /\ UNCHANGED <<env, files, escaped, handle, window, earlier>>

NextZone == SelectUtm

SpecZone == InitZone /\ [][NextZone]_vars

\* Repeated invocations in one process: the tools are plain functions, so a
\* process calls them again and again.  `earlier' keeps one finished
\* invocation with what it returned, and whether another invocation came
\* after it.
RepeatClock == {"2025-01-01T00:00:00", "2025-01-02T00:00:00"}

RepeatDocs == {PolygonDoc(CoverRing), Doc("invalid json", Malformed)}

RepeatRasters ==
    {Dataset(<<0, 1, 0, 1, 0, -2>>, 1, 1, None, <<<<e>>>>) : e \in {0, MaxElev}}
    \cup {Dataset(<<0, 1, 0, 1, 0, -2>>, 2, 1, JNum(0), << <<0, MaxElev>> >>)}

RepeatBases == {None, JNum(1)}

RepeatNames == {"Stockpile A", "Stockpile B"}

InitRepeat ==
    /\ env \in {[GDAL_AVAILABLE |-> b, SHAPELY_AVAILABLE |-> b] : b \in BOOLEAN}
    /\ files = {ExistingPath}
    /\ pc = "idle"
    /\ call = NoCall
    /\ returned = None
    /\ escaped = None
    /\ handle = "none"
    /\ window = Effect(None, None, None)
    /\ earlier = None

\* The invocation of a repeated call names everything the call reads: its
\* arguments, the raster the file holds and the area pyproj computes.
RepeatVolume ==
    /\ pc = "idle"
    /\ \E polygon_coordinates \in RepeatDocs, dsm_file_path \in Paths,
          base_elevation \in RepeatBases, measurement_name \in RepeatNames,
          now \in RepeatClock :
          \E opened \in (IF ReachesOpen(polygon_coordinates, dsm_file_path)
                         THEN {Ok(ds) : ds \in RepeatRasters} ELSE {Ok(None)}),
             projected \in (IF ReachesOpen(polygon_coordinates, dsm_file_path)
                            THEN 0..MaxArea ELSE {0}) :
          \E r \in {calculate_volume_from_polygon(polygon_coordinates, dsm_file_path,
                         base_elevation, measurement_name, env, files, opened,
                         projected, now)} :
             Returns(r,
                     [tool |-> "calculate_volume_from_polygon",
                      polygon_coordinates |-> polygon_coordinates,
                      dsm_file_path |-> dsm_file_path,
                      base_elevation |-> base_elevation,
                      measurement_name |-> measurement_name,
                      raster |-> opened,
                      projected |-> projected])

RepeatArea ==
    /\ pc = "idle"
    /\ \E polygon_coordinates \in RepeatDocs, coordinate_system \in Systems,
          measurement_name \in RepeatNames, now \in RepeatClock, projected \in 0..MaxArea :
       \E r \in {calculate_polygon_area(polygon_coordinates, coordinate_system,
                      measurement_name, env, projected, now)} :
          Returns(r,
                  [tool |-> "calculate_polygon_area",
                   polygon_coordinates |-> polygon_coordinates,
                   coordinate_system |-> coordinate_system,
                   measurement_name |-> measurement_name,
                   projected |-> projected])

RepeatElevation ==
    /\ pc = "idle"
    /\ \E polygon_coordinates \in RepeatDocs, dsm_file_path \in Paths,
          measurement_name \in RepeatNames, now \in RepeatClock :
       \E r \in {analyze_elevation_profile(polygon_coordinates, dsm_file_path,
                      measurement_name, env, files, now)} :
          Returns(r,
                  [tool |-> "analyze_elevation_profile",
                   polygon_coordinates |-> polygon_coordinates,
                   dsm_file_path |-> dsm_file_path,
                   measurement_name |-> measurement_name])

Finished == [call |-> call, returned |-> returned, escaped |-> escaped, between |-> FALSE]

\* The caller takes the result, the locals of the call are gone, and the
\* process goes on to its next call.
\* The first finished invocation may be kept; every later one is noted as
\* having come in between.
NextCall ==
    /\ pc \in {"returned", "escaped"}
    /\ pc' = "idle"
    /\ earlier' \in (IF earlier = None THEN {None, Finished}
                     ELSE {[earlier EXCEPT !.between = TRUE]})
    /\ call' = NoCall
    /\ returned' = None
    /\ escaped' = None
    /\ window' = Effect(None, None, None)
    /\ UNCHANGED <<env, files, handle>>

NextRepeat ==
    \/ RepeatVolume
    \/ RepeatArea
    \/ RepeatElevation
    \/ NextCall
    \/ Finalize

SpecRepeat == InitRepeat /\ [][NextRepeat]_vars

---------------------------------------------------------------------------
(* What the properties speak of *)

Has(r, key) == key \in DOMAIN r

VolumeTool == "calculate_volume_from_polygon"

AreaTool == "calculate_polygon_area"

ElevationTool == "analyze_elevation_profile"

Called == call.tool # "none"

\* the input of the call is JSON
InputParsed == Called /\ call.polygon_coordinates.data # Malformed

\* the value json.loads built from the input of the call
Input == call.polygon_coordinates.data

\* the input of the call is JSON the validator accepts
InputValid == InputParsed /\ _validate_polygon_geojson(Input) = Ok(TRUE)

InvalidPolygonMessage == "Invalid GeoJSON polygon format"

\* the tool returned an object with an "error" key
ReturnedError == pc = "returned" /\ Has(returned, "error")

\* the tool returned the record of a measurement
ReturnedSuccess ==
    /\ pc = "returned"
    /\ ~Has(returned, "error")
    /\ \/ call.tool = VolumeTool /\ Has(returned, "volume_cubic_meters")
       \/ call.tool = AreaTool /\ Has(returned, "area_square_meters")
       \/ call.tool = ElevationTool /\ Has(returned, "elevation_stats")

\* the volume tool returned the record of the real raster path
RealSuccess ==
    /\ call.tool = VolumeTool
    /\ ReturnedSuccess
    /\ returned.metadata.calculation_method = "gdal_raster_clip"

\* the object's type is not "Polygon"
TypeNotPolygon(v) ==
    v.t # "dict" \/ ~Has(v.v, "type") \/ v.v.type # JStr("Polygon")

\* the object's coordinates are an empty list, or hold a ring of fewer than
\* 4 points
FewerThanFourPoints(v) ==
    /\ v.t = "dict"
    /\ Has(v.v, "coordinates")
    /\ v.v.coordinates.t = "list"
    /\ \/ v.v.coordinates.v = <<>>
       \/ \E i \in 1..Len(v.v.coordinates.v) :
             /\ v.v.coordinates.v[i].t = "list"
             /\ Len(v.v.coordinates.v[i].v) < 4

\* the sample at the k-th place of the window the calculation read, counting
\* row by row
SampleAt(k) ==
    window.dataset.band[window.read.uly + ((k - 1) \div window.read.cols) + 1]
                       [window.read.ulx + ((k - 1) % window.read.cols) + 1]

\* the places of the window that read
Places == 1..(window.read.cols * window.read.rows)

\* the places whose sample is not the declared no-data value
ValidPlaces ==
    {k \in Places : window.dataset.nodata = None \/ SampleAt(k) # window.dataset.nodata.v}

\* the places whose sample is an elevation
ElevationPlaces == {k \in ValidPlaces : SampleAt(k) # NaN}

\* the sum over the elevations up to place k of the heights above base; no
\* height is above a base that is NaN
RECURSIVE AboveUpTo(_, _)
AboveUpTo(k, base) ==
    IF k = 0 \/ base = NaN THEN 0
    ELSE AboveUpTo(k - 1, base)
         + (IF k \in ElevationPlaces /\ SampleAt(k) > base THEN SampleAt(k) - base ELSE 0)

\* the sum over the elevations up to place k of the depths below base
RECURSIVE BelowUpTo(_, _)
BelowUpTo(k, base) ==
    IF k = 0 \/ base = NaN THEN 0
    ELSE BelowUpTo(k - 1, base)
         + (IF k \in ElevationPlaces /\ SampleAt(k) < base THEN base - SampleAt(k) ELSE 0)

\* the area of a pixel of the opened raster
PixelArea == Abs(window.dataset.geotransform[2] * window.dataset.geotransform[6])

\* the ring of the call's polygon, as points
CallPoints == RingPoints(Input).val

\* the polygon's envelope lies west, east, north or south of the raster
EnvelopeOutside ==
    \/ SeqMax(Column(CallPoints, 1)) < window.dataset.geotransform[1]
    \/ SeqMin(Column(CallPoints, 1)) >
          window.dataset.geotransform[1]
          + window.dataset.RasterXSize * window.dataset.geotransform[2]
    \/ SeqMin(Column(CallPoints, 2)) > window.dataset.geotransform[4]
    \/ SeqMax(Column(CallPoints, 2)) <
          window.dataset.geotransform[4]
          + window.dataset.RasterYSize * window.dataset.geotransform[6]

---------------------------------------------------------------------------
(* The properties *)

\* C1: for every polygon object whose type is not "Polygon", or that has an
\* empty coordinates list or a ring of fewer than 4 points,
\* _validate_polygon_geojson returns false; calculate_polygon_area, which
\* asks the validator first, answers such an input with the invalid-polygon
\* error and nothing else.
C1_ValidatorRejects ==
    InputParsed /\ (TypeNotPolygon(Input) \/ FewerThanFourPoints(Input))
    => /\ _validate_polygon_geojson(Input) = Ok(FALSE)
       /\ call.tool = AreaTool => returned = [error |-> InvalidPolygonMessage]

\* a call of the area tool on a polygon of type "Polygon" whose only ring has
\* 3 points was rejected
C1_Witness ==
    /\ call.tool = AreaTool
    /\ InputParsed
    /\ ~TypeNotPolygon(Input)
    /\ FewerThanFourPoints(Input)
    /\ Input.v.coordinates.v # <<>>
    /\ Len(Input.v.coordinates.v[1].v) = 3
    /\ returned = [error |-> InvalidPolygonMessage]

\* C2: each of the three tools answers an input whose parsed polygon fails
\* _validate_polygon_geojson with the error "Invalid GeoJSON polygon format",
\* never with a success record.
C2_ToolsGated ==
    InputParsed /\ _validate_polygon_geojson(Input) = Ok(FALSE)
    => /\ ReturnedError
       /\ returned.error = InvalidPolygonMessage

\* C3: for every input string and every outcome of the raster backend, each
\* tool returns a success record or an object with an "error" key; no
\* exception escapes to the caller.
C3_NothingEscapes ==
    Called => /\ pc = "returned"
              /\ escaped = None
              /\ ReturnedError \/ ReturnedSuccess

\* an exception raised inside the raster calculation (ring entries that are no
\* coordinate pairs, after the dataset was opened) came back as an error
C3_Witness ==
    /\ call.tool = VolumeTool
    /\ call.polygon_coordinates \in OddDocs
    /\ window.dataset # None
    /\ ReturnedError
    /\ returned.error = "Volume calculation failed: 'float' object is not subscriptable"

\* C4: on the real raster path, volume_cubic_meters is fill_volume_cubic_meters
\* minus cut_volume_cubic_meters; fill is the sum of the sample-minus-base
\* differences above 0 and cut the sum of the magnitudes of those below 0,
\* over the valid samples of the window, each times the pixel area.
C4_NetIsFillMinusCut ==
    RealSuccess
    => /\ returned.volume_cubic_meters =
             Rat(returned.fill_volume_cubic_meters.num
                 - returned.cut_volume_cubic_meters.num, 1000)
       /\ returned.fill_volume_cubic_meters =
             Rat(AboveUpTo(window.read.cols * window.read.rows,
                           returned.base_elevation_meters) * PixelArea, 1000)
       /\ returned.cut_volume_cubic_meters =
             Rat(BelowUpTo(window.read.cols * window.read.rows,
                           returned.base_elevation_meters) * PixelArea, 1000)
       /\ returned.fill_volume_cubic_meters.den = 1000
       /\ returned.cut_volume_cubic_meters.den = 1000

\* a window with samples above and below the given base elevation
C4_Witness ==
    /\ RealSuccess
    /\ call.base_elevation # None
    /\ returned.cut_volume_cubic_meters.num > 0
    /\ returned.fill_volume_cubic_meters.num > 0

\* C5: in every successful result of calculate_volume_from_polygon invoked
\* without a base_elevation, cut_volume_cubic_meters is 0.
C5_NoCutWithoutBase ==
    call.tool = VolumeTool /\ call.base_elevation = None /\ ReturnedSuccess
    => returned.cut_volume_cubic_meters.num = 0

\* C6: a valid polygon whose envelope lies entirely west, east, north or south
\* of the opened north-up raster makes the volume calculation fail with
\* "Polygon does not intersect with DSM raster"; no window is read and no
\* success record is returned.
C6_OutsideIsNoIntersection ==
    call.tool = VolumeTool /\ window.dataset # None /\ EnvelopeOutside
    => /\ ReturnedError
       /\ returned.error = "Volume calculation failed: " \o NoIntersectionMessage
       /\ window.read = None

\* a polygon east of the raster was answered with the no-intersection error
C6_Witness ==
    /\ call.tool = VolumeTool
    /\ window.dataset # None
    /\ SeqMin(Column(CallPoints, 1)) >
          window.dataset.geotransform[1]
          + window.dataset.RasterXSize * window.dataset.geotransform[2]
    /\ ReturnedError
    /\ returned.error = "Volume calculation failed: " \o NoIntersectionMessage

\* C7: when the window that was read is non-empty and every pixel of it is the
\* raster's declared no-data value, the volume calculation fails with "No
\* valid elevation data found within polygon", a message other than the
\* no-intersection one; and pixel_count, the statistics and the volumes of a
\* success count the samples other than the no-data value only.
C7_NoDataNeverCounts ==
    /\ EmptyWindowMessage # NoIntersectionMessage
    /\ call.tool = VolumeTool /\ window.read # None /\ ValidPlaces = {}
       => /\ ReturnedError
          /\ returned.error = "Volume calculation failed: " \o EmptyWindowMessage
    /\ RealSuccess
       => /\ returned.metadata.pixel_count = Cardinality(ValidPlaces)
          /\ \E k \in ValidPlaces : returned.elevation_stats.min = SampleAt(k)
          /\ \E k \in ValidPlaces : returned.elevation_stats.max = SampleAt(k)

C9_ErrorsCarryInput ==
    ReturnedError
    => /\ Has(returned, "polygon")
       /\ returned.polygon = Truncated(call.polygon_coordinates)

\* C10: the dataset handle a volume calculation opened is released on every
\* exit path: once the tool has returned, no opened handle remains held.
C10_HandleReleased ==
    pc \in {"returned", "escaped"} => handle # "open"

\* the sequence s from its last entry to its first
Reverse(s) == [i \in 1..Len(s) |-> s[Len(s) + 1 - i]]

\* the polygon v with the vertices of its outer ring in the opposite order
ReversedPolygon(v) == [v EXCEPT !.v.coordinates.v[1].v = Reverse(@)]

C12_SimpleAreaInSquareMetres ==
    call.tool = AreaTool /\ ReturnedSuccess /\ ~env.SHAPELY_AVAILABLE
    => /\ returned.area_square_meters.den = 1
       /\ returned.area_square_meters.num % 1000 = 0
       /\ returned.area_square_meters.num \div 1000
             = Abs(Shoelace(CallPoints)) * ((111 * 111 * 1000) \div 200)

\* C13: every polygon the validator accepts has a closed outer ring: its first
\* coordinate pair equals its last.  Stated for the accepted polygons whose
\* ring entries are coordinate pairs.
C13_AcceptedRingsClosed ==
    InputValid /\ ~RingPoints(Input).raised
    => Input.v.coordinates.v[1].v[1]
       = Input.v.coordinates.v[1].v[Len(Input.v.coordinates.v[1].v)]

\* C14: _validate_polygon_geojson never raises: for any input value (no dict,
\* missing keys, coordinates of a wrong type) it returns a boolean; and it
\* leaves its argument as it was: what a tool reports of the polygon after the
\* validation is what the input held.
C14_ValidatorTotal ==
    InputParsed
    => /\ ~_validate_polygon_geojson(Input).raised
       /\ _validate_polygon_geojson(Input).val \in BOOLEAN
       /\ call.tool = AreaTool /\ ReturnedSuccess
          => returned.coordinates = Input.v.coordinates.v[1]

\* the validator was given a value that is no dict, on which its body raises,
\* and the area tool got False from it
C14_Witness ==
    /\ call.tool = AreaTool
    /\ InputParsed
    /\ Input.t = "list"
    /\ ValidatorTry(Input).raised
    /\ returned = [error |-> InvalidPolygonMessage]

\* a result without its timestamp field
WithoutTimestamp(r) ==
    IF Has(r, "timestamp") THEN [k \in DOMAIN r \ {"timestamp"} |-> r[k]] ELSE r

ClipOfArray(ds, arr) == IF arr.raised THEN <<>> ELSE ValidSamples(arr.val, ds.nodata)

\* the samples the raster clip leaves of window w of raster ds
ClipOfWindow(ds, w) ==
    IF w.cols <= 0 \/ w.rows <= 0 THEN <<>>
    ELSE ClipOfArray(ds, ReadAsArray(ds, w.ulx, w.uly, w.cols, w.rows))

\* the valid samples of the elevation window the raster clip produces for the
\* call's polygon on raster ds
ClipSamples(ds) ==
    ClipOfWindow(ds, PixelWindow(ds.geotransform, ds.RasterXSize, ds.RasterYSize,
                                 GetEnvelope(CallPoints)))

\* the fraction q is n tenths of a metre
IsTenths(q, n) == q.num * 10 = n * q.den

\* C16: the statistics analyze_elevation_profile returns are those of the
\* valid samples of the window the raster clip produces for the polygon on
\* the raster the file holds, whichever raster that is: the minimum and the
\* maximum are those of the samples, and the range is maximum minus minimum.
C16_StatsFromWindow ==
    /\ call.tool = ElevationTool /\ ReturnedSuccess /\ env.GDAL_AVAILABLE
    /\ InputValid /\ ~RingPoints(Input).raised
    => \A ds \in DataRasters :
          Len(ClipSamples(ds)) > 0 /\ ~AnyNaN(ClipSamples(ds))
          => /\ IsTenths(returned.elevation_stats.min_elevation, SeqMin(ClipSamples(ds)))
             /\ IsTenths(returned.elevation_stats.max_elevation, SeqMax(ClipSamples(ds)))
             /\ IsTenths(returned.elevation_stats.elevation_range,
                         SeqMax(ClipSamples(ds)) - SeqMin(ClipSamples(ds)))

\* the pixel window the raster clip computes for the call's polygon on raster ds
ClipWindow(ds) ==
    PixelWindow(ds.geotransform, ds.RasterXSize, ds.RasterYSize, GetEnvelope(CallPoints))

\* the raster clip reads a non-empty window of raster ds for the call's polygon
ClipReads(ds) ==
    /\ ClipWindow(ds).cols > 0 /\ ClipWindow(ds).rows > 0
    /\ ~ReadAsArray(ds, ClipWindow(ds).ulx, ClipWindow(ds).uly,
                    ClipWindow(ds).cols, ClipWindow(ds).rows).raised

\* the envelope of the call's polygon lies west, east, north or south of
\* the extent of raster ds
OutsideExtent(ds) ==
    \/ SeqMax(Column(CallPoints, 1)) < ds.geotransform[1]
    \/ SeqMin(Column(CallPoints, 1)) > ds.geotransform[1] + ds.RasterXSize * ds.geotransform[2]
    \/ SeqMin(Column(CallPoints, 2)) > ds.geotransform[4]
    \/ SeqMax(Column(CallPoints, 2)) < ds.geotransform[4] + ds.RasterYSize * ds.geotransform[6]

\* C17: analyze_elevation_profile fails as the raster clip fails, whichever
\* raster the file holds: for a polygon entirely outside the raster's extent
\* it returns the no-intersection error, and for a window of no-data pixels
\* only it returns the empty-window error; neither is a success record.
C17_ElevationFailsLikeClip ==
    /\ call.tool = ElevationTool /\ pc = "returned" /\ env.GDAL_AVAILABLE
    /\ call.dsm_file_path \in files
    /\ InputValid /\ ~RingPoints(Input).raised
    => \A ds \in DataRasters :
          /\ OutsideExtent(ds)
             => /\ ReturnedError
                /\ returned.error = "Elevation analysis failed: " \o NoIntersectionMessage
          /\ ClipReads(ds) /\ ClipSamples(ds) = <<>>
             => /\ ReturnedError
                /\ returned.error = "Elevation analysis failed: " \o EmptyWindowMessage

\* C18 as stated: every successful result of calculate_volume_from_polygon,
\* for any supplied base_elevation, has volume_cubic_meters >= 0 and
\* area_square_meters >= 0.
C18_VolumeNeverNegative ==
    call.tool = VolumeTool /\ ReturnedSuccess
    => /\ returned.volume_cubic_meters.num >= 0
       /\ returned.area_square_meters.num >= 0

\* C18: every successful result of calculate_volume_from_polygon has
\* area_square_meters >= 0, and volume_cubic_meters >= 0 when base_elevation
\* was omitted (the base is then the lowest sample) or the mock path computed
\* the result; with a supplied base the raster path's volume is fill minus
\* cut, and it is negative exactly when the cut outweighs the fill.
C18_VolumeNonNegativeFromLowest ==
    call.tool = VolumeTool /\ ReturnedSuccess
    => /\ returned.area_square_meters.num >= 0
       /\ call.base_elevation = None \/ ~RealSuccess
          => returned.volume_cubic_meters.num >= 0
       /\ returned.volume_cubic_meters.num < 0
          <=> /\ RealSuccess
              /\ returned.cut_volume_cubic_meters.num > returned.fill_volume_cubic_meters.num

\* the raster path measured a positive volume above the lowest sample
C18_Witness ==
    /\ RealSuccess
    /\ call.base_elevation = None
    /\ returned.volume_cubic_meters.num > 0
    /\ returned.area_square_meters.num > 0

C20_OneConvention ==
    call.tool = VolumeTool /\ ReturnedSuccess
    => /\ returned.cut_volume_cubic_meters.num >= 0
       /\ returned.fill_volume_cubic_meters.num >= 0
       /\ returned.cut_volume_cubic_meters.den = returned.volume_cubic_meters.den
       /\ returned.fill_volume_cubic_meters.den = returned.volume_cubic_meters.den
       /\ returned.volume_cubic_meters.num
             = returned.fill_volume_cubic_meters.num - returned.cut_volume_cubic_meters.num

\* what the elevation call of this state returns where GDAL is importable
ElevationWithGdal ==
    analyze_elevation_profile(call.polygon_coordinates, call.dsm_file_path,
                              call.measurement_name,
                              [env EXCEPT !.GDAL_AVAILABLE = TRUE], files,
                              returned.timestamp).returned

\* C21: a success record produced by a fallback or mock path is told apart
\* from an authoritative one by its metadata: the area tool reports
\* calculation_method "simple" rather than "geodesic", the volume tool
\* confidence_score 0.85 rather than 0.95, and the elevation tool's mock
\* result carries metadata that the result computed with GDAL does not.
C21_FallbackFlagged ==
    /\ call.tool = AreaTool /\ ReturnedSuccess
       => returned.metadata.calculation_method
             = (IF env.SHAPELY_AVAILABLE THEN "geodesic" ELSE "simple")
    /\ call.tool = VolumeTool /\ ReturnedSuccess
       => returned.metadata.confidence_score
             = (IF env.GDAL_AVAILABLE /\ env.SHAPELY_AVAILABLE
                THEN Rat(95, 100) ELSE Rat(85, 100))
    /\ call.tool = ElevationTool /\ ReturnedSuccess /\ InputValid /\ ~env.GDAL_AVAILABLE
       => /\ Has(returned, "metadata")
          /\ returned # ElevationWithGdal

\* C22: perimeter_meters is the sum of the Euclidean lengths of the ring's
\* edges in the projection the area is computed in: for a coordinate_system
\* that is already projected (not EPSG:4326) it is the plain sum of the edge
\* lengths of the input coordinates, with no degree-to-metre factor (a ring
\* whose edges all have length 0 has perimeter 0 under any factor).  Stated
\* where shapely computes the planar area of the coordinates as given.
C22_PerimeterInProjection ==
    /\ call.tool = AreaTool /\ ReturnedSuccess /\ env.SHAPELY_AVAILABLE
    /\ call.coordinate_system # "EPSG:4326"
    => /\ returned.perimeter_meters.squared_edges
             = [i \in 1..(Len(CallPoints) - 1) |-> SquaredEdge(CallPoints, i)]
       /\ \/ returned.perimeter_meters.factor = 1
          \/ \A i \in 1..(Len(CallPoints) - 1) : SquaredEdge(CallPoints, i) = 0

\* the finished volume call and the earlier one differ in base_elevation only
OnlyBaseDiffers ==
    /\ earlier # None
    /\ pc = "returned"
    /\ call.tool = VolumeTool
    /\ earlier.call.tool = VolumeTool
    /\ call.base_elevation # earlier.call.base_elevation
    /\ [call EXCEPT !.base_elevation = None] = [earlier.call EXCEPT !.base_elevation = None]

\* C23: two volume calculations on the same polygon and raster that differ in
\* base_elevation only (one of them may omit it) both succeed or both fail,
\* and when they succeed they report the same elevation_stats and the same
\* pixel_count.
C23_StatsIgnoreBase ==
    OnlyBaseDiffers
    => /\ Has(returned, "error") <=> Has(earlier.returned, "error")
       /\ ~Has(returned, "error")
          => /\ returned.elevation_stats = earlier.returned.elevation_stats
             /\ returned.metadata.pixel_count = earlier.returned.metadata.pixel_count

\* the same polygon measured on the same raster, once above its lowest sample
\* and once above a supplied base, with different volumes
C23_Witness ==
    /\ OnlyBaseDiffers
    /\ RealSuccess
    /\ returned.volume_cubic_meters # earlier.returned.volume_cubic_meters
    /\ returned.base_elevation_meters # earlier.returned.base_elevation_meters

\* C24: in every successful volume result average_height_meters equals
\* volume_cubic_meters divided by area_square_meters when the area is
\* positive, and 0 when the area is 0 (no division by zero takes place).
C24_AverageHeight ==
    call.tool = VolumeTool /\ ReturnedSuccess
    => IF returned.area_square_meters.num > 0
       THEN returned.average_height_meters.num * returned.volume_cubic_meters.den
               * returned.area_square_meters.num
            = returned.volume_cubic_meters.num * returned.area_square_meters.den
               * returned.average_height_meters.den
       ELSE returned.average_height_meters.num = 0

\* C25: in every successful area result area_hectares equals
\* area_square_meters / 10000 and area_acres equals area_square_meters / 4047
\* (fractions with the numerator of the area and 10000, or 4047, times its
\* denominator).
C25_HectaresAndAcres ==
    call.tool = AreaTool /\ ReturnedSuccess
    => /\ returned.area_hectares.num = returned.area_square_meters.num
       /\ returned.area_hectares.den = 10000 * returned.area_square_meters.den
       /\ returned.area_acres.num = returned.area_square_meters.num
       /\ returned.area_acres.den = 4047 * returned.area_square_meters.den

\* the area of the one-degree square, in square metres, hectares and acres
C25_Witness ==
    /\ call.tool = AreaTool
    /\ ReturnedSuccess
    /\ Input = PolygonOf(UnitSquare)
    /\ returned.area_square_meters.num > 0
    /\ returned.area_acres.den = 4047 * returned.area_square_meters.den

\* a result without its measurement_name field
WithoutName(r) ==
    IF Has(r, "measurement_name") THEN [k \in DOMAIN r \ {"measurement_name"} |-> r[k]]
    ELSE r

\* the finished call and the earlier one differ in measurement_name only
OnlyNameDiffers ==
    /\ earlier # None
    /\ pc # "idle"
    /\ call.tool = earlier.call.tool
    /\ call.measurement_name # earlier.call.measurement_name
    /\ [call EXCEPT !.measurement_name = ""] = [earlier.call EXCEPT !.measurement_name = ""]

\* C26: every successful result carries the measurement_name of its call
\* unchanged, and two calls that differ in measurement_name only return
\* results that are equal in every field except measurement_name and
\* timestamp (and raise the same).
C26_NameOnlyEchoed ==
    /\ Called /\ ReturnedSuccess => returned.measurement_name = call.measurement_name
    /\ OnlyNameDiffers
       => /\ WithoutName(WithoutTimestamp(returned))
             = WithoutName(WithoutTimestamp(earlier.returned))
          /\ escaped = earlier.escaped

\* the same area measured under two names
C26_Witness ==
    /\ OnlyNameDiffers
    /\ call.tool = AreaTool
    /\ ReturnedSuccess
    /\ returned.measurement_name = "Stockpile B"
    /\ earlier.returned.measurement_name = "Stockpile A"
    /\ returned.area_square_meters.num > 0

\* C27: the pixel window the volume calculation asks the elevation band for
\* lies inside the raster and is not empty, for every polygon envelope and
\* every north-up geotransform: the window read has 0 <= ulx, 0 <= uly,
\* cols > 0, rows > 0, ulx + cols <= RasterXSize and uly + rows <=
\* RasterYSize, and the backend never answers that the window is out of range.
C27_WindowInsideRaster ==
    call.tool = VolumeTool
    => /\ window.read # None
          => /\ 0 <= window.read.ulx
             /\ 0 <= window.read.uly
             /\ window.read.cols > 0
             /\ window.read.rows > 0
             /\ window.read.ulx + window.read.cols <= window.dataset.RasterXSize
             /\ window.read.uly + window.read.rows <= window.dataset.RasterYSize
       /\ ReturnedError
          => returned.error
                # "Volume calculation failed: Access window out of range in RasterIO()"
       /\ pc # "escaped"

\* an envelope that reaches beyond the raster to the west and to the east,
\* and the window clamped to the raster's columns
C27_Witness ==
    /\ call.tool = VolumeTool
    /\ window.read # None
    /\ SeqMin(Column(CallPoints, 1)) < window.dataset.geotransform[1]
    /\ SeqMax(Column(CallPoints, 1)) >
          window.dataset.geotransform[1]
          + window.dataset.RasterXSize * window.dataset.geotransform[2]
    /\ window.read.ulx = 0
    /\ window.read.cols = window.dataset.RasterXSize

\* the cell of the pixel in column c and row r (both from 0) of the opened
\* north-up raster and the envelope of the call's polygon share an area
CellMeetsEnvelope(c, r) ==
    /\ SeqMin(Column(CallPoints, 1))
          < window.dataset.geotransform[1] + (c + 1) * window.dataset.geotransform[2]
    /\ SeqMax(Column(CallPoints, 1))
          > window.dataset.geotransform[1] + c * window.dataset.geotransform[2]
    /\ SeqMin(Column(CallPoints, 2))
          < window.dataset.geotransform[4] + r * window.dataset.geotransform[6]
    /\ SeqMax(Column(CallPoints, 2))
          > window.dataset.geotransform[4] + (r + 1) * window.dataset.geotransform[6]

\* the pixels of the opened raster whose cell shares an area with the envelope
CellsMet ==
    {p \in (0..(window.dataset.RasterXSize - 1)) \X (0..(window.dataset.RasterYSize - 1)) :
        CellMeetsEnvelope(p[1], p[2])}

\* C28: the no-intersection error is raised only for polygons entirely
\* outside the raster: a valid polygon whose envelope shares an area with the
\* raster's extent (be it smaller than a pixel, or inside one row or column
\* of pixels) yields a window that is read and that contains every pixel
\* whose cell shares an area with the envelope.
C28_WindowCoversEnvelope ==
    call.tool = VolumeTool /\ InputValid /\ window.dataset # None /\ CellsMet # {}
    => /\ window.read # None
       /\ \A p \in CellsMet :
             /\ window.read.ulx <= p[1] /\ p[1] < window.read.ulx + window.read.cols
             /\ window.read.uly <= p[2] /\ p[2] < window.read.uly + window.read.rows

\* C29: for every centroid whose longitude lies in [-180, 180] the UTM zone
\* the geodesic area calculation selects is floor((lon + 180) / 6) + 1, it
\* lies in 1..60, and the EPSG code is 32600 + zone for a centroid latitude
\* >= 0 and 32700 + zone otherwise.
C29_UtmZoneInRange ==
    /\ call.tool = "_calculate_geodesic_area"
    /\ -1800 <= call.centroid[1] /\ call.centroid[1] <= 1800
    => /\ returned.utm_zone = ((call.centroid[1] + 1800) \div 60) + 1
       /\ returned.utm_zone \in 1..60
       /\ returned.utm_crs
             = "EPSG:" \o ToString(IF call.centroid[2] >= 0
                                   THEN 32600 + returned.utm_zone
                                   ELSE 32700 + returned.utm_zone)

\* C30: a base_elevation the caller supplies is used and reported unchanged:
\* in every successful volume result, from the raster path or the mock path,
\* base_elevation_meters is the supplied number, 0.0 included; only an
\* omitted base_elevation is replaced by a default.
C30_SuppliedBaseReported ==
    call.tool = VolumeTool /\ ReturnedSuccess /\ call.base_elevation # None
    => returned.base_elevation_meters = call.base_elevation.v

====
